---- MODULE Spec2Model ----
(***************************************************************************)
(* A model of the chisei feedforward network library: the NeuralNetwork    *)
(* object (layer_sizes, weights, biases, activation pair, generator), its   *)
(* operations predict, train, compute_accuracy, is_correct_prediction,      *)
(* compute_mse_loss, compute_output_gradient, save_model and loadFromModel,  *)
(* and the ".chisei" files they write and read.                             *)
(*                                                                          *)
(* A double is modelled as a fixed-point number counted in units of         *)
(* 1/Scale: the integer v stands for the double v/Scale.  Sums are exact,   *)
(* products are truncated to a whole unit.  A file is a sequence of cells:  *)
(* one cell per magic byte, per size_t and per double.                      *)
(***************************************************************************)
EXTENDS Integers, Sequences, FiniteSets, TLC

\* ------------------------------------------------------------------------
\* Bounds of the model
\* ------------------------------------------------------------------------
\* public operations called on the network in one run
MaxCalls == 2
\* largest epoch count passed to train
MaxEpochs == 2
\* largest dataset passed to train and compute_accuracy
MaxSamples == 2
\* threads that call predict on the network at the same time
MaxThreads == 2
\* longest arrays passed to dot_product_fma
MaxSize == 5
\* most images and labels in the files passed to fromMNIST
MaxImages == 2

\* ------------------------------------------------------------------------
\* Fixed-point doubles
\* ------------------------------------------------------------------------
Scale == 4
One == Scale

Abs(a) == IF a < 0 THEN -a ELSE a

\* a / b rounded toward zero (b > 0)
TDiv(a, b) == IF a >= 0 THEN a \div b ELSE -((-a) \div b)

\* the product of two doubles
FMul(a, b) == TDiv(a * b, Scale)

\* ------------------------------------------------------------------------
\* The activation registry
\* ------------------------------------------------------------------------
\* 1 / (1 + exp(-x)), to the nearest unit
sigmoid_activation(x) ==
    IF x <= -8 THEN 0
    ELSE IF x <= -3 THEN 1
    ELSE IF x <= 2 THEN 2
    ELSE IF x <= 7 THEN 3
    ELSE 4

sigmoid_derivative(x) == FMul(x, One - x)

relu_activation(x) == IF x > 0 THEN x ELSE 0

relu_derivative(x) == IF x > 0 THEN One ELSE 0

\* tanh(x), to the nearest unit
tanh_activation(x) ==
    LET m == Abs(x)
        t == IF m <= 3 THEN m ELSE IF m <= 5 THEN 3 ELSE 4
    IN  IF x < 0 THEN -t ELSE t

tanh_derivative(x) == One - FMul(x, x)

\* the activation pairs a caller can pass to the constructor
ActivationPairs == {"sigmoid", "relu", "tanh"}

\* a pair the caller passes to the constructor itself: the identity and
\* the constant 1
identity_activation(x) == x

identity_derivative(x) == One

\* this->activation(x) of a network holding the pair named f
activation_of(f, x) ==
    CASE f = "sigmoid" -> sigmoid_activation(x)
      [] f = "relu" -> relu_activation(x)
      [] f = "tanh" -> tanh_activation(x)
      [] f = "identity" -> identity_activation(x)

\* this->activation_derivative(x) of a network holding the pair named f
activation_derivative_of(f, x) ==
    CASE f = "sigmoid" -> sigmoid_derivative(x)
      [] f = "relu" -> relu_derivative(x)
      [] f = "tanh" -> tanh_derivative(x)
      [] f = "identity" -> identity_derivative(x)

\* ------------------------------------------------------------------------
\* The random generator
\* ------------------------------------------------------------------------
GenPeriod == 3
Seeds == 0 .. (GenPeriod - 1)

\* the state of gen after one draw
gen_next(g) == (g + 2) % GenPeriod

RECURSIVE gen_after(_, _)
\* the state of gen after k draws
gen_after(g, k) == IF k = 0 THEN g ELSE gen_after(gen_next(g), k - 1)

\* weight_dist(gen): a normal deviate of mean 0, deviation 0.1, in units
weight_dist(g) == (g % 3) - 1

\* the value of the k-th draw (k >= 1) of a generator in state g
draw(g, k) == weight_dist(gen_after(g, k - 1))

\* ------------------------------------------------------------------------
\* Helpers on vectors
\* ------------------------------------------------------------------------
RECURSIVE SumTo(_, _)
\* v[1] + ... + v[n]
SumTo(v, n) == IF n = 0 THEN 0 ELSE SumTo(v, n - 1) + v[n]

\* the vector of length n holding c everywhere
ConstVec(n, c) == [i \in 1 .. n |-> c]

\* ------------------------------------------------------------------------
\* Construction
\* ------------------------------------------------------------------------
RECURSIVE draws_before(_, _)
\* the number of draws the constructor makes before it reaches gap k
draws_before(L, k) ==
    IF k <= 1 THEN 0
    ELSE draws_before(L, k - 1) + L[k - 1] * L[k] + L[k]

\* NeuralNetwork(_layers, _activation, _activation_derivative) with the
\* generator seeded by rd() = seed: gap after gap, the rows of the weight
\* matrix and then the bias vector, each value one draw of weight_dist(gen)
NeuralNetwork(_layers, f, seed) ==
    LET n == Len(_layers)
    IN  [ layer_sizes |-> _layers,
          weights |-> [k \in 1 .. (n - 1) |->
                         [i \in 1 .. _layers[k] |->
                            [j \in 1 .. _layers[k + 1] |->
                               draw(seed, draws_before(_layers, k)
                                          + (i - 1) * _layers[k + 1] + j)]]],
          biases |-> [k \in 1 .. (n - 1) |->
                        [j \in 1 .. _layers[k + 1] |->
                           draw(seed, draws_before(_layers, k)
                                      + _layers[k] * _layers[k + 1] + j)]],
          activation |-> f,
          gen |-> gen_after(seed, draws_before(_layers, n)) ]

\* ------------------------------------------------------------------------
\* predict
\* ------------------------------------------------------------------------
\* one output neuron of one layer: the bias plus the inner product of the
\* layer's input with column j of the weight matrix, through the activation
neuron_output(net, layer, layer_output, j) ==
    activation_of(net.activation,
        net.biases[layer][j]
        + SumTo([i \in 1 .. net.layer_sizes[layer] |->
                    FMul(layer_output[i], net.weights[layer][i][j])],
                net.layer_sizes[layer]))

\* the output vector of one layer
next_layer_output(net, layer, layer_output) ==
    [j \in 1 .. net.layer_sizes[layer + 1] |->
        neuron_output(net, layer, layer_output, j)]

RECURSIVE forward_from(_, _, _)
\* the loop over the layers, from gap 'layer' on
forward_from(net, layer, layer_output) ==
    IF layer > Len(net.weights) THEN layer_output
    ELSE forward_from(net, layer + 1, next_layer_output(net, layer, layer_output))

\* predict(input), for an input holding at least layer_sizes[0] elements
predict(net, input) == forward_from(net, 1, input)

\* ------------------------------------------------------------------------
\* One training sample: forward pass, error signals, parameter update
\* ------------------------------------------------------------------------
RECURSIVE train_forward(_, _, _)
\* the forward pass of train: layer_outputs grows by one vector per gap
train_forward(net, layer, outs) ==
    IF layer > Len(net.weights) THEN outs
    ELSE train_forward(net, layer + 1,
             Append(outs, next_layer_output(net, layer, outs[Len(outs)])))

\* the error signal of the output layer
output_gradient(net, outs, target) ==
    [j \in 1 .. net.layer_sizes[Len(net.layer_sizes)] |->
        FMul(outs[Len(outs)][j] - target[j],
             activation_derivative_of(net.activation, outs[Len(outs)][j]))]

\* an error signal that reads weights[layer + 1][k][j] for weights[layer + 1][j][k]
layer_gradient_transposed(net, outs, layer, grads) ==
    [j \in 1 .. net.layer_sizes[layer + 1] |->
        FMul(SumTo([k \in 1 .. net.layer_sizes[layer + 2] |->
                       FMul(grads[layer + 1][k], net.weights[layer + 1][k][j])],
                   net.layer_sizes[layer + 2]),
             activation_derivative_of(net.activation, outs[layer + 1][j]))]

\* the error signal of gap 'layer' from the one of gap 'layer + 1'
layer_gradient(net, outs, layer, grads) ==
    [j \in 1 .. net.layer_sizes[layer + 1] |->
        FMul(SumTo([k \in 1 .. net.layer_sizes[layer + 2] |->
                       FMul(grads[layer + 1][k], net.weights[layer + 1][j][k])],
                   net.layer_sizes[layer + 2]),
             activation_derivative_of(net.activation, outs[layer + 1][j]))]

RECURSIVE backward_from(_, _, _, _)
\* the backward loop, from gap 'layer' down to the first gap
backward_from(net, outs, layer, grads) ==
    IF layer < 1 THEN grads
    ELSE backward_from(net, outs, layer - 1,
             [grads EXCEPT ![layer] = layer_gradient(net, outs, layer, grads)])

\* gradients: one error signal per gap, the output one first, then backward
train_gradients(net, outs, target) ==
    LET G == Len(net.weights)
    IN  backward_from(net, outs, G - 1,
            [[g \in 1 .. G |-> <<>>] EXCEPT ![G] = output_gradient(net, outs, target)])

\* a weight update that leaves out the factor layer_outputs[layer][i]
updated_weights_inputless(net, outs, grads, learning_rate) ==
    [layer \in 1 .. Len(net.weights) |->
        [i \in 1 .. net.layer_sizes[layer] |->
            [j \in 1 .. net.layer_sizes[layer + 1] |->
                net.weights[layer][i][j]
                - FMul(learning_rate, grads[layer][j])]]]

\* the weights after the update of one sample
updated_weights(net, outs, grads, learning_rate) ==
    [layer \in 1 .. Len(net.weights) |->
        [i \in 1 .. net.layer_sizes[layer] |->
            [j \in 1 .. net.layer_sizes[layer + 1] |->
                net.weights[layer][i][j]
                - FMul(FMul(learning_rate, grads[layer][j]), outs[layer][i])]]]

\* the biases after the update of one sample
updated_biases(net, grads, learning_rate) ==
    [layer \in 1 .. Len(net.weights) |->
        [j \in 1 .. net.layer_sizes[layer + 1] |->
            net.biases[layer][j] - FMul(learning_rate, grads[layer][j])]]

\* ------------------------------------------------------------------------
\* Accuracy and the loss helpers
\* ------------------------------------------------------------------------
\* a / b on doubles: the quotient is kept as the pair; 0 / 0 is a NaN and
\* a / 0 with a > 0 an infinity
DoubleDiv(a, b) == [num |-> a, den |-> b]

RECURSIVE max_scan_last(_, _, _)
\* a scan that keeps the last greatest element
max_scan_last(v, i, largest) ==
    IF i > Len(v) THEN largest
    ELSE max_scan_last(v, i + 1, IF v[largest] <= v[i] THEN i ELSE largest)

RECURSIVE max_scan(_, _, _)
\* std::max_element: the scan keeps the first greatest element
max_scan(v, i, largest) ==
    IF i > Len(v) THEN largest
    ELSE max_scan(v, i + 1, IF v[largest] < v[i] THEN i ELSE largest)

\* max_element(begin, end) - begin, an index counted from 0
max_element_index(v) == IF Len(v) = 0 THEN 0 ELSE max_scan(v, 2, 1) - 1

is_correct_prediction(prediction, target) ==
    max_element_index(prediction) = max_element_index(target)

RECURSIVE correct_predictions(_, _, _, _)
\* the number of the first i samples the network classifies as the target does
correct_predictions(net, inputs, targets, i) ==
    IF i = 0 THEN 0
    ELSE correct_predictions(net, inputs, targets, i - 1)
         + (IF is_correct_prediction(predict(net, inputs[i]), targets[i])
            THEN 1 ELSE 0)

compute_accuracy(net, inputs, targets) ==
    DoubleDiv(correct_predictions(net, inputs, targets, Len(inputs)), Len(inputs))

\* the squared differences compute_mse_loss adds into total_loss
squared_diffs(prediction, target) ==
    [i \in 1 .. Len(prediction) |->
        FMul(prediction[i] - target[i], prediction[i] - target[i])]

RECURSIVE SumOver(_, _)
\* the sum of v over the index set S
SumOver(v, S) ==
    IF S = {} THEN 0
    ELSE LET i == CHOOSE x \in S : TRUE IN v[i] + SumOver(v, S \ {i})

\* the values total_loss can hold after the loop: the additions of the
\* iterations in kept, the others being overwritten by a concurrent iteration
total_loss_after(prediction, target, kept) ==
    SumOver(squared_diffs(prediction, target), kept)

\* total_loss / prediction.size()
compute_mse_loss(prediction, target, kept) ==
    DoubleDiv(total_loss_after(prediction, target, kept), Len(prediction))

compute_output_gradient(prediction, target) ==
    [i \in 1 .. Len(prediction) |-> 2 * (prediction[i] - target[i])]

\* ------------------------------------------------------------------------
\* The model codec
\* ------------------------------------------------------------------------
CharC == 67
CharS == 83

\* the characters of a file name
Suffix == <<".", "c", "h", "i", "s", "e", "i">>

\* size_t arithmetic wraps at SizeModulus (which stands for 2^64)
SizeModulus == 65536

\* the largest element count an allocation can satisfy
MaxAlloc == 64

\* final_filename.size() - 7 in size_t
substr_pos(filename) == (Len(filename) - 7 + SizeModulus) % SizeModulus

\* the name save_model writes to, or the exception substr raises when the
\* position is past the end of the name
final_filename(filename) ==
    IF substr_pos(filename) > Len(filename)
    THEN [error |-> "std::out_of_range", name |-> <<>>]
    ELSE IF SubSeq(filename, substr_pos(filename) + 1, Len(filename)) # Suffix
    THEN [error |-> "none", name |-> filename \o Suffix]
    ELSE [error |-> "none", name |-> filename]

RECURSIVE Flatten(_)
\* the concatenation of a sequence of sequences
Flatten(ss) == IF Len(ss) = 0 THEN <<>> ELSE ss[1] \o Flatten(Tail(ss))

\* the cells save_model writes for the weights: gap after gap, row after row
weight_cells(net) ==
    Flatten([layer \in 1 .. Len(net.weights) |->
        Flatten([i \in 1 .. net.layer_sizes[layer] |-> net.weights[layer][i]])])

\* the cells save_model writes for the biases: gap after gap
bias_cells(net) == Flatten(net.biases)

\* a save_model that writes each gap's biases right after its weights, the
\* order in which the constructor fills them
save_model_gapwise(net) ==
    <<CharC, CharS>> \o <<Len(net.layer_sizes)>> \o net.layer_sizes
    \o Flatten([layer \in 1 .. Len(net.weights) |->
           Flatten([i \in 1 .. net.layer_sizes[layer] |-> net.weights[layer][i]])
           \o net.biases[layer]])

\* the whole stream save_model writes
save_model(net) ==
    <<CharC, CharS>> \o <<Len(net.layer_sizes)>> \o net.layer_sizes
    \o weight_cells(net) \o bias_cells(net)

\* file.read of a buffer that starts at cell pos of the file: element k of
\* the buffer receives the cell when the file holds it and keeps old otherwise
file_read(file, pos, k, old) ==
    IF pos + k <= Len(file) THEN file[pos + k] ELSE old

RECURSIVE weights_before(_, _)
\* the number of weight cells before gap k
weights_before(L, k) ==
    IF k <= 1 THEN 0 ELSE weights_before(L, k - 1) + L[k - 1] * L[k]

RECURSIVE biases_before(_, _)
\* the number of bias cells before gap k
biases_before(L, k) ==
    IF k <= 1 THEN 0 ELSE biases_before(L, k - 1) + L[k]

ErrOpenSave == "ModelLoaderException: Failed to open *.chisei file for saving the model."
ErrOpenLoad == "ModelLoaderException: Failed to open file for loading model."
ErrMagic == "ModelLoaderException: Invalid *.chisei file format, missing magic bytes."

\* a magic test that rejects the file only when both bytes are wrong
bad_magic_both(magic) == magic[1] # CharC /\ magic[2] # CharS

\* the test loadFromModel makes on the two bytes it read
bad_magic(magic) == magic[1] # CharC \/ magic[2] # CharS

\* a load that sizes biases[layer] by layer_sizes[layer]
loadFromModel_bias_rows(file, seed, garbage) ==
    LET magic == <<file_read(file, 0, 1, 0), file_read(file, 0, 2, 0)>>
        num_layers == file_read(file, 2, 1, garbage)
        sizes == [k \in 1 .. num_layers |-> file_read(file, 3, k, 0)]
        network == NeuralNetwork(sizes, "sigmoid", seed)
        wbase == 3 + num_layers
        bbase == wbase + weights_before(sizes, num_layers)
    IN  IF bad_magic(magic)
        THEN [error |-> ErrMagic]
        ELSE IF num_layers > MaxAlloc
        THEN [error |-> "std::bad_alloc"]
        ELSE IF (num_layers - 1 + SizeModulus) % SizeModulus > MaxAlloc
        THEN [error |-> "std::length_error"]
        ELSE [error |-> "none",
              network |->
                [network EXCEPT
                   !.weights = [layer \in 1 .. (num_layers - 1) |->
                      [i \in 1 .. sizes[layer] |->
                         [j \in 1 .. sizes[layer + 1] |->
                            file_read(file,
                                wbase + weights_before(sizes, layer)
                                      + (i - 1) * sizes[layer + 1],
                                j, network.weights[layer][i][j])]]],
                   !.biases = [layer \in 1 .. (num_layers - 1) |->
                      [j \in 1 .. sizes[layer] |->
                         file_read(file,
                             bbase + biases_before(sizes, layer),
                             j, network.biases[layer][1])]]]]

\* loadFromModel on an opened file; seed is what rd() gives the constructor,
\* garbage the value num_layers holds when the read of it fails
loadFromModel(file, seed, garbage) ==
    LET magic == <<file_read(file, 0, 1, 0), file_read(file, 0, 2, 0)>>
        num_layers == file_read(file, 2, 1, garbage)
        sizes == [k \in 1 .. num_layers |-> file_read(file, 3, k, 0)]
        network == NeuralNetwork(sizes, "sigmoid", seed)
        wbase == 3 + num_layers
        bbase == wbase + weights_before(sizes, num_layers)
    IN  IF bad_magic(magic)
        THEN [error |-> ErrMagic]
        ELSE IF num_layers > MaxAlloc
        THEN [error |-> "std::bad_alloc"]
        ELSE IF (num_layers - 1 + SizeModulus) % SizeModulus > MaxAlloc
        THEN [error |-> "std::length_error"]
        ELSE [error |-> "none",
              network |->
                [network EXCEPT
                   !.weights = [layer \in 1 .. (num_layers - 1) |->
                      [i \in 1 .. sizes[layer] |->
                         [j \in 1 .. sizes[layer + 1] |->
                            file_read(file,
                                wbase + weights_before(sizes, layer)
                                      + (i - 1) * sizes[layer + 1],
                                j, network.weights[layer][i][j])]]],
                   !.biases = [layer \in 1 .. (num_layers - 1) |->
                      [j \in 1 .. sizes[layer + 1] |->
                         file_read(file,
                             bbase + biases_before(sizes, layer),
                             j, network.biases[layer][j])]]]]

\* ------------------------------------------------------------------------
\* Arguments the callers pass
\* ------------------------------------------------------------------------
Max(a, b) == IF a >= b THEN a ELSE b

\* the shapes networks are constructed with
Shapes == { <<1, 1>>, <<1, 2, 2>> }

Zeros(n) == ConstVec(n, 0)
E1(n) == [i \in 1 .. n |-> IF i = 1 THEN One ELSE 0]
ELast(n) == [i \in 1 .. n |-> IF i = n THEN One ELSE 0]

\* samples with one vector too short or too long by one element
IllSamples(l0, lout) ==
    { [x |-> ConstVec(l0 - 1, One), t |-> E1(lout)],
      [x |-> ConstVec(l0 + 1, One), t |-> E1(lout)],
      [x |-> E1(l0), t |-> ConstVec(lout - 1, One)],
      [x |-> E1(l0), t |-> ConstVec(lout + 1, One)] }

RECURSIVE Alternate(_, _, _)
\* the sequence a, b, a, b, ... of length n
Alternate(a, b, n) == IF n = 0 THEN <<>> ELSE <<a>> \o Alternate(b, a, n - 1)

\* the datasets passed to train and compute_accuracy: at most MaxSamples
\* samples; the two well-shaped samples in turn, starting with either, and
\* such a sequence with one ill-shaped sample put before it or after it
Datasets(l0, lout) ==
    LET w1 == [x |-> E1(l0), t |-> E1(lout)]
        w2 == [x |-> Zeros(l0), t |-> ELast(lout)]
    IN  { Alternate(w1, w2, n) : n \in 0 .. MaxSamples }
        \cup { Alternate(w2, w1, n) : n \in 0 .. MaxSamples }
        \cup { Alternate(w1, w2, n) \o <<ill>> :
                  n \in 0 .. (MaxSamples - 1), ill \in IllSamples(l0, lout) }
        \cup { <<ill>> \o Alternate(w1, w2, n) :
                  n \in 0 .. (MaxSamples - 1), ill \in IllSamples(l0, lout) }

\* the vectors passed to predict
PredictInputs(l0) ==
    [1 .. Max(l0, 0) -> {0, One}]
    \cup { ConstVec(l0 - 1, One), ConstVec(l0 + 1, One) }

\* the prediction and target vectors passed to the helpers
HelperVectors == { <<>>, <<One>>, <<0, One>>, <<One, 0>>, <<One, One>> }

LearningRates == { One }

\* what a read past the end of a vector can find there
GarbageDoubles == { 0, One }

\* what an uninitialised size_t can hold
GarbageSizes == { 0, 1, 2, SizeModulus - 1 }

\* v, followed by what the reads of elements Len(v)+1 .. n find
PadTo(v, n, pad) == v \o [i \in 1 .. Max(n - Len(v), 0) |-> pad[i]]

\* the garbage n - Len(v) reads past the end of v can find
Pads(v, n) == [1 .. Max(n - Len(v), 0) -> GarbageDoubles]

\* the names passed to save_model and loadFromModel
Filenames ==
    { <<>>, <<"m">>, Suffix, <<"m">> \o Suffix,
      <<"n", "e", "t", ".", "b", "i", "n">> }

\* the names a file can exist under
DiskNames == Filenames \cup { f \o Suffix : f \in Filenames }

NoFile == [exists |-> FALSE, data |-> <<>>]

\* the contents a file written as data can have when it is opened again:
\* as written, cut short anywhere, extended by a cell, with a damaged magic,
\* or replaced by a header declaring no layer or one layer
FilesAt(data) ==
    { SubSeq(data, 1, n) : n \in 0 .. Len(data) }
    \cup { data \o <<0>> }
    \cup { <<CharC, 0>> \o SubSeq(data, 3, Len(data)),
           <<0, CharS>> \o SubSeq(data, 3, Len(data)) }
    \cup { <<CharC, CharS, 0>>, <<CharC, CharS, 1, 1>> }

\* ------------------------------------------------------------------------
\* State
\* ------------------------------------------------------------------------
VARIABLES
    layer_sizes,    \* the network object: the width of every layer,
    weights,        \*   one weight matrix per gap,
    biases,         \*   one bias vector per gap,
    activation,     \*   the activation pair,
    gen,            \*   the generator
    disk,           \* the files, by name
    pc,             \* where the calling thread is: "idle", inside train, "crashed"
    op,             \* the operation called last
    args,           \* its arguments
    result,         \* what it returned
    error,          \* the exception it raised, or "none"
    calls,          \* operations called so far
    epoch,          \* train: the loop counters,
    sample,
    layer_outputs,  \*   the layer outputs of the sample being processed,
    gradients,      \*   its error signals
    pre,            \* the network as it was when the last operation was called
    updates,        \* train: the (epoch, sample) pairs updated so far, in order
    threads,        \* the predict calls that run concurrently, by thread
    loop            \* the parallel loop the calling thread's operation is in

network_vars == <<layer_sizes, weights, biases, activation, gen>>
call_vars == <<op, args, result, error, calls, pre>>
train_vars == <<epoch, sample, layer_outputs, gradients, updates>>
vars == <<network_vars, disk, pc, call_vars, train_vars, threads, loop>>

\* the threads that call predict concurrently
Threads == 1 .. MaxThreads

\* a thread that has not called predict
IdleThread ==
    [pc |-> "idle", input |-> <<>>, layer |-> 0, layer_output |-> <<>>,
     result |-> <<>>]

\* what a thread of a parallel loop holds between its read of the shared
\* accumulator and its write to it
NoReg == [busy |-> FALSE, i |-> 0, seen |-> 0]

\* no parallel loop is running
NoLoop ==
    [kind |-> "none", terms |-> <<>>, total |-> 0, todo |-> {},
     regs |-> [t \in Threads |-> NoReg],
     layer |-> 0, layer_output |-> <<>>, next_layer_output |-> <<>>]

\* the network object as a value
this ==
    [ layer_sizes |-> layer_sizes, weights |-> weights, biases |-> biases,
      activation |-> activation, gen |-> gen ]

\* the input width and the output width of a network
input_size(net) == net.layer_sizes[1]
output_size(net) == net.layer_sizes[Len(net.layer_sizes)]

Init ==
    \E _layers \in Shapes, f \in ActivationPairs, seed \in Seeds :
        LET network == NeuralNetwork(_layers, f, seed)
        IN  /\ layer_sizes = network.layer_sizes
            /\ weights = network.weights
            /\ biases = network.biases
            /\ activation = network.activation
            /\ gen = network.gen
            /\ disk = [name \in DiskNames |-> NoFile]
            /\ pc = "idle"
            /\ op = "NeuralNetwork"
            /\ args = [layers |-> _layers]
            /\ result = "void"
            /\ error = "none"
            /\ calls = 0
            /\ epoch = 0
            /\ sample = 0
            /\ layer_outputs = <<>>
            /\ gradients = <<>>
            /\ pre = network
            /\ updates = <<>>
            /\ threads = [t \in Threads |-> IdleThread]
            /\ loop = NoLoop

\* ------------------------------------------------------------------------
\* predict
\* ------------------------------------------------------------------------
\* a predict that resets the biases while it runs
PredictClearing ==
    /\ pc = "idle"
    /\ calls < MaxCalls
    /\ \E input \in PredictInputs(input_size(this)) :
         /\ op' = "predict"
         /\ args' = [input |-> input]
         /\ calls' = calls + 1
         /\ pre' = this
         /\ error' = "none"
         /\ \/ \E pad \in Pads(input, input_size(this)) :
                 /\ result' = predict(this, PadTo(input, input_size(this), pad))
                 /\ pc' = "idle"
            \/ /\ Len(input) < input_size(this)
               /\ result' = "void"
               /\ pc' = "crashed"
    /\ biases' = [layer \in 1 .. Len(biases) |-> ConstVec(Len(biases[layer]), 0)]
    /\ UNCHANGED <<loop, threads, layer_sizes, weights, activation, gen, disk, train_vars>>

\* predict(input): the forward pass over the stored parameters
Predict ==
    /\ pc = "idle"
    /\ calls < MaxCalls
    /\ \E input \in PredictInputs(input_size(this)) :
         /\ op' = "predict"
         /\ args' = [input |-> input]
         /\ calls' = calls + 1
         /\ pre' = this
         /\ error' = "none"
         /\ \/ \E pad \in Pads(input, input_size(this)) :
                 /\ result' = predict(this, PadTo(input, input_size(this), pad))
                 /\ pc' = "idle"
            \/ /\ Len(input) < input_size(this)
               /\ result' = "void"
               /\ pc' = "crashed"
    /\ UNCHANGED <<loop, threads, network_vars, disk, train_vars>>

\* ------------------------------------------------------------------------
\* predict, called by several threads at once; a step is one layer
\* ------------------------------------------------------------------------
\* thread t calls predict: layer_output is its copy of the input
PredictEnter(t) ==
    /\ pc = "idle"
    /\ threads[t].pc = "idle"
    /\ \E input \in { x \in PredictInputs(input_size(this)) :
                          Len(x) >= input_size(this) } :
         threads' = [threads EXCEPT ![t] =
                        [pc |-> "layer", input |-> input, layer |-> 1,
                         layer_output |-> input, result |-> <<>>]]
    /\ UNCHANGED <<loop, network_vars, disk, pc, call_vars, train_vars>>

\* a layer step that keeps the layer output in a buffer of the network
\* object, which every running call reads and writes
PredictLayerShared(t) ==
    /\ threads[t].pc = "layer"
    /\ threads[t].layer <= Len(weights)
    /\ LET out == next_layer_output(this, threads[t].layer, threads[t].layer_output)
       IN  threads' = [u \in Threads |->
                         IF u = t
                         THEN [threads[u] EXCEPT !.layer_output = out,
                                                 !.layer = threads[t].layer + 1]
                         ELSE IF threads[u].pc = "layer"
                         THEN [threads[u] EXCEPT !.layer_output = out]
                         ELSE threads[u]]
    /\ UNCHANGED <<loop, network_vars, disk, pc, call_vars, train_vars>>

\* thread t computes the next layer from its own layer_output
PredictLayer(t) ==
    /\ threads[t].pc = "layer"
    /\ threads[t].layer <= Len(weights)
    /\ threads' = [threads EXCEPT ![t] =
           [threads[t] EXCEPT
              !.layer_output = next_layer_output(this, threads[t].layer,
                                                 threads[t].layer_output),
              !.layer = threads[t].layer + 1]]
    /\ UNCHANGED <<loop, network_vars, disk, pc, call_vars, train_vars>>

\* thread t returns its last layer_output
PredictReturn(t) ==
    /\ threads[t].pc = "layer"
    /\ threads[t].layer > Len(weights)
    /\ threads' = [threads EXCEPT ![t] =
           [threads[t] EXCEPT !.pc = "done", !.result = threads[t].layer_output]]
    /\ UNCHANGED <<loop, network_vars, disk, pc, call_vars, train_vars>>

\* ------------------------------------------------------------------------
\* CPUFeatureOptimizer::dot_product_fma
\* ------------------------------------------------------------------------
\* the doubles in one 256-bit register
Lanes == 4

\* the first index the wide loop does not load: it advances by four from 0
\* while i < size
loaded_end(size) == Lanes * ((size + Lanes - 1) \div Lanes)

\* one lane of the accumulator after the wide loop over arrays A and B
fmadd_lane(A, B, lane, size) ==
    LET blocks == loaded_end(size) \div Lanes
    IN  SumTo([k \in 1 .. blocks |->
                  FMul(A[Lanes * (k - 1) + lane], B[Lanes * (k - 1) + lane])],
              blocks)

\* the wide path: result[0] + result[1] + result[2] + result[3]
dot_product_wide(A, B, size) ==
    fmadd_lane(A, B, 1, size) + fmadd_lane(A, B, 2, size)
    + fmadd_lane(A, B, 3, size) + fmadd_lane(A, B, 4, size)

\* the portable path: sum += a[i] * b[i] in a parallel for with no
\* reduction; kept are the iterations whose addition is not lost
dot_product_scalar(a, b, size, kept) ==
    SumOver([i \in 1 .. size |-> FMul(a[i], b[i])], kept)

\* the arrays of n doubles passed to dot_product_fma
DotArrays(n) == { ConstVec(n, One), [i \in 1 .. n |-> i * One] }

\* dot_product_fma(a, b, size) on arrays of exactly size elements; avx: the
\* build defines __AVX__; reads: the indices of a and b the call loads
DotProductFma ==
    /\ pc = "idle"
    /\ calls < MaxCalls
    /\ \E size \in 0 .. MaxSize, avx \in BOOLEAN :
       \E a \in DotArrays(size), b \in DotArrays(size) :
         /\ op' = "dot_product_fma"
         /\ args' = [a |-> a, b |-> b, size |-> size, avx |-> avx]
         /\ IF avx
            THEN \/ \E pad_a \in Pads(a, loaded_end(size)),
                       pad_b \in Pads(b, loaded_end(size)) :
                      /\ result' =
                            [value |-> dot_product_wide(
                                          PadTo(a, loaded_end(size), pad_a),
                                          PadTo(b, loaded_end(size), pad_b), size),
                             reads |-> 0 .. (loaded_end(size) - 1)]
                      /\ pc' = "idle"
                 \/ /\ loaded_end(size) > size
                    /\ result' = "void"
                    /\ pc' = "crashed"
            ELSE \E kept \in SUBSET (1 .. size) :
                    /\ kept = {} => size = 0
                    /\ result' = [value |-> dot_product_scalar(a, b, size, kept),
                                  reads |-> 0 .. (size - 1)]
                    /\ pc' = "idle"
    /\ error' = "none"
    /\ calls' = calls + 1
    /\ pre' = this
    /\ UNCHANGED <<loop, threads, network_vars, disk, train_vars>>

\* ------------------------------------------------------------------------
\* IDXLoader::fromMNIST; a file is a sequence of bytes
\* ------------------------------------------------------------------------
MagicImages == 2051
MagicLabels == 2049
SampleCap == 5000
OutputSize == 10
PixelMax == 255

ErrIdxOpen == "std::bad_exception: Failed to open MNIST files"
ErrIdxFormat == "std::bad_exception: Invalid MNIST file format"

\* byte k (1 the lowest) of a 32-bit word
word_byte(value, k) ==
    IF k = 1 THEN value % 256
    ELSE IF k = 2 THEN (value \div 256) % 256
    ELSE IF k = 3 THEN (value \div 65536) % 256
    ELSE (value \div 16777216) % 256

\* (value >> 24) | ((value << 8) & 0x00FF0000) | ((value >> 8) & 0x0000FF00)
\* | (value << 24)
byte_swap(value) ==
    word_byte(value, 4) + word_byte(value, 2) * 65536
    + word_byte(value, 3) * 256 + word_byte(value, 1) * 16777216

\* readUint32 at offset pos: the bytes the file still holds are copied into
\* value, lowest byte first, the others keep what value held (old), and the
\* word is returned with its bytes swapped
readUint32(file, pos, old) ==
    LET b(k) == IF pos + k <= Len(file) THEN file[pos + k] ELSE word_byte(old, k)
    IN  byte_swap(b(1) + b(2) * 256 + b(3) * 65536 + b(4) * 16777216)

\* fromMNIST on two opened files; garbage: what the uninitialised value,
\* pixel and label hold when a read fails.  The result names the samples
\* built, the samples whose target[label] = 1.0 fell outside the target, and
\* whether the network was constructed and trained on the samples
fromMNIST(images, labels, garbage) ==
    LET image_magic == readUint32(images, 0, garbage.image_magic)
        num_images == readUint32(images, 4, garbage.count)
        rows == readUint32(images, 8, garbage.count)
        cols == readUint32(images, 12, garbage.count)
        label_magic == readUint32(labels, 0, garbage.label_magic)
        image_size == rows * cols
        max_samples == IF num_images < SampleCap THEN num_images ELSE SampleCap
        pixel(i, j) == file_read(images, 16 + (i - 1) * image_size, j, garbage.pixel)
        label(i) == file_read(labels, 8, i, garbage.label)
    IN  IF image_magic # MagicImages \/ label_magic # MagicLabels
        THEN [error |-> ErrIdxFormat, inputs |-> <<>>, targets |-> <<>>,
              outside |-> {}, layer_sizes |-> <<>>, trained |-> FALSE]
        ELSE IF rows > MaxAlloc \/ cols > MaxAlloc
        THEN [error |-> "std::bad_alloc", inputs |-> <<>>, targets |-> <<>>,
              outside |-> {}, layer_sizes |-> <<>>, trained |-> FALSE]
        ELSE [error |-> "none",
              inputs |-> [i \in 1 .. max_samples |->
                            [j \in 1 .. image_size |-> DoubleDiv(pixel(i, j), PixelMax)]],
              targets |-> [i \in 1 .. max_samples |->
                             [k \in 1 .. OutputSize |->
                                 IF k = label(i) + 1 THEN One ELSE 0]],
              outside |-> { i \in 1 .. max_samples : label(i) >= OutputSize },
              layer_sizes |-> <<image_size, 256, 128, OutputSize>>,
              trained |-> TRUE]

\* a count as the four bytes of a file header, highest byte first
be32(v) == <<0, 0, v \div 256, v % 256>>

\* the pixels of the images files
IdxPixels == <<0, 128, 255, 64>>

\* an images file of n images of rows x cols pixels
ImagesFile(n, rows, cols) ==
    be32(MagicImages) \o be32(n) \o be32(rows) \o be32(cols)
    \o [k \in 1 .. (n * rows * cols) |-> IdxPixels[((k - 1) % 4) + 1]]

\* a labels file holding the label bytes ls
LabelsFile(ls) == be32(MagicLabels) \o be32(Len(ls)) \o ls

\* the label bytes of the labels files
LabelBytes == {0, 3, 9, 10, 255}

\* the images files passed: whole ones, ones cut short, ones with another
\* magic or with the magic's bytes in the opposite order
ImagesFiles ==
    LET whole == { ImagesFile(n, d[1], d[2]) :
                      n \in 0 .. MaxImages, d \in { <<1, 1>>, <<2, 2>> } }
    IN  whole
        \cup { SubSeq(f, 1, Len(f) - 1) : f \in whole }
        \cup { <<>>, be32(MagicImages), be32(MagicImages) \o be32(1) }
        \cup { be32(MagicLabels) \o SubSeq(f, 5, Len(f)) : f \in whole }
        \cup { <<3, 8, 0, 0>> \o SubSeq(f, 5, Len(f)) : f \in whole }

\* the labels files passed
LabelsFiles ==
    LET whole == { LabelsFile(ls) :
                      ls \in UNION { [1 .. n -> LabelBytes] : n \in 0 .. MaxImages } }
    IN  whole
        \cup { SubSeq(f, 1, Len(f) - 1) : f \in whole }
        \cup { <<>> }
        \cup { be32(MagicImages) \o SubSeq(f, 5, Len(f)) : f \in whole }

\* what the uninitialised variables of fromMNIST and readUint32 can hold
IdxGarbage ==
    [ image_magic : {0, byte_swap(MagicImages)},
      label_magic : {0, byte_swap(MagicLabels)},
      count : {0, byte_swap(2)},
      pixel : {0, PixelMax},
      label : {0, PixelMax} ]

\* the garbage that matters for a pair of files: none when every read of
\* the call finds its bytes
IdxGarbageFor(images, labels) ==
    { g \in IdxGarbage :
        /\ Len(images) >= 4 => g.image_magic = 0
        /\ Len(labels) >= 4 => g.label_magic = 0
        /\ Len(images) >= 16 => g.count = 0
        /\ (Len(images) >= 16
              /\ Len(images) >= 16 + readUint32(images, 4, 0)
                     * readUint32(images, 8, 0) * readUint32(images, 12, 0))
             => g.pixel = 0
        /\ (Len(images) >= 16 /\ Len(labels) >= 8 + readUint32(images, 4, 0))
             => g.label = 0 }

\* fromMNIST(images_file, labels_file, learning_rate, epoch); opens: whether
\* both files can be opened
FromMNIST ==
    /\ pc = "idle"
    /\ calls < MaxCalls
    /\ \E images \in ImagesFiles, labels \in LabelsFiles, opens \in BOOLEAN :
         /\ op' = "fromMNIST"
         /\ args' = [images |-> images, labels |-> labels, opens |-> opens]
         /\ IF ~opens
            THEN /\ result' = [error |-> ErrIdxOpen, inputs |-> <<>>,
                               targets |-> <<>>, outside |-> {},
                               layer_sizes |-> <<>>, trained |-> FALSE]
                 /\ error' = ErrIdxOpen
                 /\ pc' = "idle"
            ELSE \E garbage \in IdxGarbageFor(images, labels) :
                    LET built == fromMNIST(images, labels, garbage)
                    IN  /\ result' = built
                        /\ error' = built.error
                        /\ \/ pc' = "idle"
                           \/ /\ built.outside # {}
                              /\ pc' = "crashed"
    /\ calls' = calls + 1
    /\ pre' = this
    /\ UNCHANGED <<loop, threads, network_vars, disk, train_vars>>

\* ------------------------------------------------------------------------
\* train
\* ------------------------------------------------------------------------
\* the call: the arguments are bound and the two loops are entered
TrainCall ==
    /\ pc = "idle"
    /\ calls < MaxCalls
    /\ \E data \in Datasets(input_size(this), output_size(this)),
          learning_rate \in LearningRates, epochs \in 0 .. MaxEpochs :
         /\ op' = "train"
         /\ args' = [ inputs |-> [s \in 1 .. Len(data) |-> data[s].x],
                      targets |-> [s \in 1 .. Len(data) |-> data[s].t],
                      learning_rate |-> learning_rate,
                      epochs |-> epochs ]
         /\ pc' = IF epochs > 0 /\ Len(data) > 0 THEN "forward" ELSE "idle"
    /\ result' = "void"
    /\ error' = "none"
    /\ calls' = calls + 1
    /\ pre' = this
    /\ epoch' = 0
    /\ sample' = 0
    /\ layer_outputs' = <<>>
    /\ gradients' = <<>>
    /\ updates' = <<>>
    /\ UNCHANGED <<loop, threads, network_vars, disk>>

\* a forward pass that reads the parameters the call started with
TrainForwardStale ==
    /\ pc = "forward"
    /\ \E pad \in Pads(args.inputs[sample + 1], input_size(this)) :
         layer_outputs' =
             train_forward(pre, 1,
                 << PadTo(args.inputs[sample + 1], input_size(this), pad) >>)
    /\ pc' = "backward"
    /\ UNCHANGED <<loop, threads, network_vars, disk, call_vars, epoch, sample, gradients, updates>>

\* the forward pass of the current sample, every layer's output kept
TrainForward ==
    /\ pc = "forward"
    /\ \E pad \in Pads(args.inputs[sample + 1], input_size(this)) :
         layer_outputs' =
             train_forward(this, 1,
                 << PadTo(args.inputs[sample + 1], input_size(this), pad) >>)
    /\ pc' = "backward"
    /\ UNCHANGED <<loop, threads, network_vars, disk, call_vars, epoch, sample, gradients, updates>>

\* the error signals of the current sample
TrainBackward ==
    /\ pc = "backward"
    /\ Len(weights) >= 1
    /\ \E pad \in Pads(args.targets[sample + 1], output_size(this)) :
         gradients' =
             train_gradients(this, layer_outputs,
                 PadTo(args.targets[sample + 1], output_size(this), pad))
    /\ pc' = "update"
    /\ UNCHANGED <<loop, threads, network_vars, disk, call_vars, epoch, sample, layer_outputs, updates>>

\* the parameter update of the current sample, then the loop tests
TrainUpdate ==
    /\ pc = "update"
    /\ weights' = updated_weights(this, layer_outputs, gradients, args.learning_rate)
    /\ biases' = updated_biases(this, gradients, args.learning_rate)
    /\ updates' = Append(updates, <<epoch, sample>>)
    /\ layer_outputs' = <<>>
    /\ gradients' = <<>>
    /\ IF sample + 1 < Len(args.inputs)
       THEN /\ sample' = sample + 1
            /\ epoch' = epoch
            /\ pc' = "forward"
       ELSE /\ sample' = 0
            /\ epoch' = epoch + 1
            /\ pc' = IF epoch + 1 < args.epochs THEN "forward" ELSE "idle"
    /\ UNCHANGED <<loop, threads, layer_sizes, activation, gen, disk, call_vars>>

\* a read past the end of inputs[sample] or targets[sample], or the write to
\* gradients.back() of an empty gradients, stops the process
TrainFault ==
    /\ \/ /\ pc = "forward"
          /\ Len(args.inputs[sample + 1]) < input_size(this)
       \/ /\ pc = "backward"
          /\ \/ Len(weights) = 0
             \/ Len(args.targets[sample + 1]) < output_size(this)
    /\ pc' = "crashed"
    /\ UNCHANGED <<loop, threads, network_vars, disk, call_vars, train_vars>>

\* ------------------------------------------------------------------------
\* compute_accuracy and the helpers
\* ------------------------------------------------------------------------
ComputeAccuracy ==
    /\ pc = "idle"
    /\ calls < MaxCalls
    /\ \E data \in Datasets(input_size(this), output_size(this)) :
         LET inputs == [s \in 1 .. Len(data) |-> data[s].x]
             targets == [s \in 1 .. Len(data) |-> data[s].t]
             short == { s \in 1 .. Len(data) : Len(inputs[s]) < input_size(this) }
         IN  /\ op' = "compute_accuracy"
             /\ args' = [inputs |-> inputs, targets |-> targets]
             /\ \/ \E g \in [short -> GarbageDoubles] :
                     /\ result' = compute_accuracy(this,
                            [s \in 1 .. Len(data) |->
                                IF s \in short
                                THEN PadTo(inputs[s], input_size(this),
                                           ConstVec(input_size(this), g[s]))
                                ELSE inputs[s]],
                            targets)
                     /\ pc' = "idle"
                \/ /\ short # {}
                   /\ result' = "void"
                   /\ pc' = "crashed"
    /\ error' = "none"
    /\ calls' = calls + 1
    /\ pre' = this
    /\ UNCHANGED <<loop, threads, network_vars, disk, train_vars>>

IsCorrectPrediction ==
    /\ pc = "idle"
    /\ calls < MaxCalls
    /\ \E prediction \in HelperVectors, target \in HelperVectors :
         /\ op' = "is_correct_prediction"
         /\ args' = [prediction |-> prediction, target |-> target]
         /\ result' = is_correct_prediction(prediction, target)
    /\ error' = "none"
    /\ calls' = calls + 1
    /\ pre' = this
    /\ UNCHANGED <<loop, threads, network_vars, disk, pc, train_vars>>

ComputeMseLoss ==
    /\ pc = "idle"
    /\ calls < MaxCalls
    /\ \E prediction \in HelperVectors, target \in HelperVectors :
         /\ Len(prediction) = Len(target)
         /\ \E kept \in SUBSET (1 .. Len(prediction)) :
              /\ kept = {} => Len(prediction) = 0
              /\ op' = "compute_mse_loss"
              /\ args' = [prediction |-> prediction, target |-> target]
              /\ result' = compute_mse_loss(prediction, target, kept)
    /\ error' = "none"
    /\ calls' = calls + 1
    /\ pre' = this
    /\ UNCHANGED <<loop, threads, network_vars, disk, pc, train_vars>>

ComputeOutputGradient ==
    /\ pc = "idle"
    /\ calls < MaxCalls
    /\ \E prediction \in HelperVectors, target \in HelperVectors :
         /\ Len(prediction) = Len(target)
         /\ op' = "compute_output_gradient"
         /\ args' = [prediction |-> prediction, target |-> target]
         /\ result' = compute_output_gradient(prediction, target)
    /\ error' = "none"
    /\ calls' = calls + 1
    /\ pre' = this
    /\ UNCHANGED <<loop, threads, network_vars, disk, pc, train_vars>>

\* ------------------------------------------------------------------------
\* save_model and loadFromModel
\* ------------------------------------------------------------------------
\* a save_model that does not test the stream after opening it
SaveModelUntested ==
    /\ pc = "idle"
    /\ calls < MaxCalls
    /\ \E filename \in Filenames, opens \in BOOLEAN :
         LET target == final_filename(filename)
         IN  /\ op' = "save_model"
             /\ args' = [filename |-> filename, opens |-> opens]
             /\ IF target.error # "none"
                THEN /\ error' = target.error
                     /\ disk' = disk
                ELSE IF ~opens
                THEN /\ error' = "none"
                     /\ disk' = disk
                ELSE /\ error' = "none"
                     /\ disk' = [disk EXCEPT ![target.name] =
                                   [exists |-> TRUE, data |-> save_model(this)]]
    /\ result' = "void"
    /\ calls' = calls + 1
    /\ pre' = this
    /\ UNCHANGED <<loop, threads, network_vars, pc, train_vars>>

\* opens: whether the output file can be opened for writing
SaveModel ==
    /\ pc = "idle"
    /\ calls < MaxCalls
    /\ \E filename \in Filenames, opens \in BOOLEAN :
         LET target == final_filename(filename)
         IN  /\ op' = "save_model"
             /\ args' = [filename |-> filename, opens |-> opens]
             /\ IF target.error # "none"
                THEN /\ error' = target.error
                     /\ disk' = disk
                ELSE IF ~opens
                THEN /\ error' = ErrOpenSave
                     /\ disk' = disk
                ELSE /\ error' = "none"
                     /\ disk' = [disk EXCEPT ![target.name] =
                                   [exists |-> TRUE, data |-> save_model(this)]]
    /\ result' = "void"
    /\ calls' = calls + 1
    /\ pre' = this
    /\ UNCHANGED <<loop, threads, network_vars, pc, train_vars>>

\* file: what the file holds when it is opened
LoadFromModel ==
    /\ pc = "idle"
    /\ calls < MaxCalls
    /\ \E filename \in DiskNames :
         /\ op' = "loadFromModel"
         /\ IF ~disk[filename].exists
            THEN /\ args' = [filename |-> filename, opened |-> FALSE,
                             file |-> <<>>]
                 /\ error' = ErrOpenLoad
                 /\ result' = "void"
            ELSE \E file \in FilesAt(disk[filename].data), seed \in Seeds :
                 \E garbage \in (IF Len(file) >= 3 THEN {0} ELSE GarbageSizes) :
                    LET loaded == loadFromModel(file, seed, garbage)
                    IN  /\ args' = [filename |-> filename, opened |-> TRUE,
                                    file |-> file]
                        /\ error' = loaded.error
                        /\ result' = IF loaded.error = "none"
                                     THEN loaded.network ELSE "void"
    /\ calls' = calls + 1
    /\ pre' = this
    /\ UNCHANGED <<loop, threads, network_vars, disk, pc, train_vars>>

\* ------------------------------------------------------------------------
\* The loops under #pragma omp parallel for, iteration by iteration
\* ------------------------------------------------------------------------
\* compute_mse_loss(prediction, target) reaches its loop: total_loss is 0.0
\* and the iterations are handed to the team
MseLoopEnter ==
    /\ pc = "idle"
    /\ calls < MaxCalls
    /\ \E prediction \in HelperVectors, target \in HelperVectors :
         /\ Len(prediction) = Len(target)
         /\ op' = "compute_mse_loss"
         /\ args' = [prediction |-> prediction, target |-> target]
         /\ loop' = [NoLoop EXCEPT !.kind = "mse",
                                   !.terms = squared_diffs(prediction, target),
                                   !.todo = 1 .. Len(prediction)]
    /\ pc' = "mse_loop"
    /\ result' = "void"
    /\ error' = "none"
    /\ pre' = this
    /\ UNCHANGED <<threads, network_vars, disk, calls, train_vars>>

\* dot_product_fma(a, b, size) of a build without __AVX__ reaches its loop
DotLoopEnter ==
    /\ pc = "idle"
    /\ calls < MaxCalls
    /\ \E size \in 0 .. MaxSize :
       \E a \in DotArrays(size), b \in DotArrays(size) :
         /\ op' = "dot_product_fma"
         /\ args' = [a |-> a, b |-> b, size |-> size, avx |-> FALSE]
         /\ loop' = [NoLoop EXCEPT !.kind = "dot",
                                   !.terms = [i \in 1 .. size |-> FMul(a[i], b[i])],
                                   !.todo = 1 .. size]
    /\ pc' = "dot_loop"
    /\ result' = "void"
    /\ error' = "none"
    /\ pre' = this
    /\ UNCHANGED <<threads, network_vars, disk, calls, train_vars>>

\* total_loss += ... / sum += ..., first half: thread t takes an iteration
\* and reads the accumulator
AccumulateLoad(t) ==
    /\ loop.kind \in {"mse", "dot"}
    /\ ~loop.regs[t].busy
    /\ \E i \in loop.todo :
         loop' = [loop EXCEPT !.todo = loop.todo \ {i},
                              !.regs[t] = [busy |-> TRUE, i |-> i,
                                           seen |-> loop.total]]
    /\ UNCHANGED <<threads, network_vars, disk, pc, call_vars, train_vars>>

\* second half: thread t writes what it read plus its term
AccumulateStore(t) ==
    /\ loop.kind \in {"mse", "dot"}
    /\ loop.regs[t].busy
    /\ loop' = [loop EXCEPT !.total = loop.regs[t].seen + loop.terms[loop.regs[t].i],
                            !.regs[t] = NoReg]
    /\ UNCHANGED <<threads, network_vars, disk, pc, call_vars, train_vars>>

\* every iteration is done: the team joins
loop_joined ==
    /\ loop.todo = {}
    /\ \A t \in Threads : ~loop.regs[t].busy

\* return total_loss / (double) prediction.size()
MseLoopReturn ==
    /\ pc = "mse_loop"
    /\ loop_joined
    /\ result' = DoubleDiv(loop.total, Len(args.prediction))
    /\ pc' = "idle"
    /\ calls' = calls + 1
    /\ loop' = NoLoop
    /\ UNCHANGED <<threads, network_vars, disk, op, args, error, pre, train_vars>>

\* return sum
DotLoopReturn ==
    /\ pc = "dot_loop"
    /\ loop_joined
    /\ result' = [value |-> loop.total, reads |-> 0 .. (args.size - 1)]
    /\ pc' = "idle"
    /\ calls' = calls + 1
    /\ loop' = NoLoop
    /\ UNCHANGED <<threads, network_vars, disk, op, args, error, pre, train_vars>>

\* predict(input) for an input of layer_sizes[0] elements reaches the loop
\* over the neurons of the first gap: next_layer_output holds zeroes
PredictLoopEnter ==
    /\ pc = "idle"
    /\ calls < MaxCalls
    /\ Len(weights) >= 1
    /\ \E input \in PredictInputs(input_size(this)) :
         /\ Len(input) = input_size(this)
         /\ op' = "predict"
         /\ args' = [input |-> input]
         /\ loop' = [NoLoop EXCEPT !.kind = "predict",
                                   !.layer = 1,
                                   !.layer_output = input,
                                   !.next_layer_output = Zeros(layer_sizes[2]),
                                   !.todo = 1 .. layer_sizes[2]]
    /\ pc' = "predict_loop"
    /\ result' = "void"
    /\ error' = "none"
    /\ pre' = this
    /\ UNCHANGED <<threads, network_vars, disk, calls, train_vars>>

\* thread t runs one iteration j of the loop over the neurons
PredictNeuron(t) ==
    /\ pc = "predict_loop"
    /\ \E j \in loop.todo :
         loop' = [loop EXCEPT !.todo = loop.todo \ {j},
                              !.next_layer_output[j] =
                                  neuron_output(this, loop.layer, loop.layer_output, j)]
    /\ UNCHANGED <<threads, network_vars, disk, pc, call_vars, train_vars>>

\* layer_output = next_layer_output, then the next gap or the return
PredictLayerEnd ==
    /\ pc = "predict_loop"
    /\ loop.todo = {}
    /\ IF loop.layer < Len(weights)
       THEN /\ loop' = [loop EXCEPT !.layer = loop.layer + 1,
                                    !.layer_output = loop.next_layer_output,
                                    !.next_layer_output = Zeros(layer_sizes[loop.layer + 2]),
                                    !.todo = 1 .. layer_sizes[loop.layer + 2]]
            /\ UNCHANGED <<pc, result, calls>>
       ELSE /\ result' = loop.next_layer_output
            /\ pc' = "idle"
            /\ calls' = calls + 1
            /\ loop' = NoLoop
    /\ UNCHANGED <<threads, network_vars, disk, op, args, error, pre, train_vars>>

Next ==
    \/ Predict
    \/ TrainCall
    \/ TrainForward
    \/ TrainBackward
    \/ TrainUpdate
    \/ TrainFault
    \/ ComputeAccuracy
    \/ IsCorrectPrediction
    \/ ComputeMseLoss
    \/ ComputeOutputGradient
    \/ SaveModel
    \/ LoadFromModel

Spec == Init /\ [][Next]_vars

\* train called on the network as constructed
TrainOnce == calls = 0 /\ TrainCall

\* one call of train
NextTrain ==
    \/ TrainOnce
    \/ TrainForward
    \/ TrainBackward
    \/ TrainUpdate
    \/ TrainFault

SpecTrain == Init /\ [][NextTrain]_vars

\* the network of shape {3,3} constructed with the identity pair
IdentityShape == <<3, 3>>

InitIdentity ==
    \E seed \in Seeds :
        LET network == NeuralNetwork(IdentityShape, "identity", seed)
        IN  /\ layer_sizes = network.layer_sizes
            /\ weights = network.weights
            /\ biases = network.biases
            /\ activation = network.activation
            /\ gen = network.gen
            /\ disk = [name \in DiskNames |-> NoFile]
            /\ pc = "idle"
            /\ op = "NeuralNetwork"
            /\ args = [layers |-> IdentityShape]
            /\ result = "void"
            /\ error = "none"
            /\ calls = 0
            /\ epoch = 0
            /\ sample = 0
            /\ layer_outputs = <<>>
            /\ gradients = <<>>
            /\ pre = network
            /\ updates = <<>>
            /\ threads = [t \in Threads |-> IdleThread]
            /\ loop = NoLoop

\* the single sample of all zeroes
ZeroSample == <<[x |-> Zeros(input_size(this)), t |-> Zeros(output_size(this))]>>

\* train(inputs, targets, learning_rate, epochs) on the sample of zeroes
TrainZeroSample ==
    /\ pc = "idle"
    /\ calls < MaxCalls
    /\ \E learning_rate \in LearningRates, epochs \in 0 .. MaxEpochs :
         /\ op' = "train"
         /\ args' = [ inputs |-> [s \in 1 .. Len(ZeroSample) |-> ZeroSample[s].x],
                      targets |-> [s \in 1 .. Len(ZeroSample) |-> ZeroSample[s].t],
                      learning_rate |-> learning_rate,
                      epochs |-> epochs ]
         /\ pc' = IF epochs > 0 THEN "forward" ELSE "idle"
    /\ result' = "void"
    /\ error' = "none"
    /\ calls' = calls + 1
    /\ pre' = this
    /\ epoch' = 0
    /\ sample' = 0
    /\ layer_outputs' = <<>>
    /\ gradients' = <<>>
    /\ updates' = <<>>
    /\ UNCHANGED <<loop, threads, network_vars, disk>>

\* the identity network trained on the sample of zeroes, predict between
\* the calls
NextIdentity ==
    \/ TrainZeroSample
    \/ TrainForward
    \/ TrainBackward
    \/ TrainUpdate
    \/ Predict

SpecIdentity == InitIdentity /\ [][NextIdentity]_vars

\* the name the loaded network's file is stored under
LoadedName == <<"m">> \o Suffix

\* the files a network is loaded from: the streams save_model writes for the
\* shapes, whole or without their last cell
LoadedFiles ==
    UNION { { save_model(NeuralNetwork(_layers, "sigmoid", seed)),
              SubSeq(save_model(NeuralNetwork(_layers, "sigmoid", seed)), 1,
                     Len(save_model(NeuralNetwork(_layers, "sigmoid", seed))) - 1) } :
            _layers \in Shapes, seed \in {0} }

\* the state after NeuralNetwork::loadFromModel(LoadedName) has returned a network
InitLoaded ==
    \E file \in LoadedFiles, seed \in Seeds :
        LET loaded == loadFromModel(file, seed, 0)
        IN  /\ loaded.error = "none"
            /\ layer_sizes = loaded.network.layer_sizes
            /\ weights = loaded.network.weights
            /\ biases = loaded.network.biases
            /\ activation = loaded.network.activation
            /\ gen = loaded.network.gen
            /\ disk = [name \in DiskNames |->
                          IF name = LoadedName
                          THEN [exists |-> TRUE, data |-> file] ELSE NoFile]
            /\ pc = "idle"
            /\ op = "loadFromModel"
            /\ args = [filename |-> LoadedName, opened |-> TRUE, file |-> file]
            /\ result = "void"
            /\ error = "none"
            /\ calls = 0
            /\ epoch = 0
            /\ sample = 0
            /\ layer_outputs = <<>>
            /\ gradients = <<>>
            /\ pre = loaded.network
            /\ updates = <<>>
            /\ threads = [t \in Threads |-> IdleThread]
            /\ loop = NoLoop

\* a network from the constructor or from loadFromModel
InitShape == Init \/ InitLoaded

\* train, predict, compute_accuracy and save_model in any order
NextShape ==
    \/ TrainCall
    \/ TrainForward
    \/ TrainBackward
    \/ TrainUpdate
    \/ TrainFault
    \/ Predict
    \/ ComputeAccuracy
    \/ SaveModel

SpecShape == InitShape /\ [][NextShape]_vars

\* the codec alone: save_model and loadFromModel on the constructed network
NextCodec ==
    \/ SaveModel
    \/ LoadFromModel

SpecCodec == Init /\ [][NextCodec]_vars

\* is_correct_prediction alone: one call on any pair of vectors
IsCorrectPredictionOnce == calls = 0 /\ IsCorrectPrediction

SpecArgmax == Init /\ [][IsCorrectPredictionOnce]_vars

\* concurrent predict calls on one network, no train running
NextPredict ==
    \E t \in Threads : PredictEnter(t) \/ PredictLayer(t) \/ PredictReturn(t)

SpecPredict == Init /\ [][NextPredict]_vars

\* dot_product_fma alone: one call
DotProductFmaOnce == calls = 0 /\ DotProductFma

SpecDot == Init /\ [][DotProductFmaOnce]_vars

\* fromMNIST alone: one call
FromMNISTOnce == calls = 0 /\ FromMNIST

SpecIdx == Init /\ [][FromMNISTOnce]_vars

\* the operations that hold a parallel loop, their iterations interleaved
NextLoops ==
    \/ MseLoopEnter
    \/ DotLoopEnter
    \/ MseLoopReturn
    \/ DotLoopReturn
    \/ PredictLoopEnter
    \/ PredictLayerEnd
    \/ \E t \in Threads : AccumulateLoad(t) \/ AccumulateStore(t) \/ PredictNeuron(t)

SpecLoops == Init /\ [][NextLoops]_vars

\* ------------------------------------------------------------------------
\* Properties
\* ------------------------------------------------------------------------
\* the input vectors of length n over {0, 1}
BinaryInputs(n) == [1 .. n -> {0, One}]

\* the number of cells a stream needs after its magic bytes, by the layer
\* count and layer sizes it declares
declared_cells(file) ==
    LET n == file[3]
        L == [k \in 1 .. n |-> file[3 + k]]
        gaps == Max(n - 1, 0)
    IN  1 + n + SumTo([k \in 1 .. gaps |-> L[k] * L[k + 1] + L[k + 1]], gaps)

\* the stream carries the magic bytes and exactly the cells it declares
complete(file) ==
    /\ Len(file) >= 3
    /\ Len(file) >= 3 + file[3]
    /\ Len(file) = 2 + declared_cells(file)

\* the first two bytes of the file are the magic bytes
has_magic(file) == Len(file) >= 2 /\ file[1] = CharC /\ file[2] = CharS

\* C1: a network loaded from the file that save_model wrote for this network
\* gives, for every input, the prediction this network gives
C1_RoundTrip ==
    (op = "loadFromModel" /\ error = "none" /\ args.file = save_model(this))
        => \A x \in BinaryInputs(input_size(this)) :
              predict(result, x) = predict(this, x)

\* some sample of the dataset has an input of another length than the first
\* layer or a target of another length than the last layer
ill_shaped(inputs, targets) ==
    \E s \in 1 .. Len(inputs) :
        \/ Len(inputs[s]) # input_size(pre)
        \/ Len(targets[s]) # output_size(pre)

\* C2: a train call whose dataset has a sample with an input of another
\* length than the first layer, or a target of another length than the last
\* layer, ends in an input-shape error and leaves every weight and bias as
\* it was before the call
C2_TrainShapeError ==
    (op = "train" /\ pc = "idle" /\ ill_shaped(args.inputs, args.targets))
        => /\ error = "input-shape"
           /\ weights = pre.weights
           /\ biases = pre.biases

\* the model-format errors loadFromModel raises
ModelFormatErrors == {ErrMagic}

\* C3: a load of a file that carries the magic bytes but not exactly the
\* cells its layer count and layer sizes declare ends in a model-format
\* error, never in a returned network
C3_TruncatedLoad ==
    (op = "loadFromModel" /\ args.opened /\ has_magic(args.file)
                          /\ ~complete(args.file))
        => error \in ModelFormatErrors /\ result = "void"

C5_LoadActivation ==
    (op = "loadFromModel" /\ error = "none")
        => \A f \in ActivationPairs :
              \A x \in BinaryInputs(input_size(result)) :
                 predict(result, x) = predict([result EXCEPT !.activation = f], x)

\* the name ends in ".chisei"
ends_in_suffix(filename) ==
    /\ Len(filename) >= Len(Suffix)
    /\ SubSeq(filename, Len(filename) - Len(Suffix) + 1, Len(filename)) = Suffix

\* the name a save to filename is to write
target_name(filename) ==
    IF ends_in_suffix(filename) THEN filename ELSE filename \o Suffix

\* C6: for every filename, the empty name and names shorter than seven
\* characters included, save_model computes the target name without failing
\* and writes the file under the filename itself when it ends in ".chisei"
\* and under filename + ".chisei" otherwise
C6_TargetName ==
    (op = "save_model" /\ args.opens)
        => /\ error = "none"
           /\ disk[target_name(args.filename)] =
                 [exists |-> TRUE, data |-> save_model(this)]

\* C7: the stream save_model writes is the bytes 'C', 'S', the layer count,
\* the layer sizes, then for each gap in ascending order the rows of its
\* weight matrix in ascending row order, then for each gap in ascending order
\* its bias vector, and nothing else
C7_StreamLayout ==
    (op = "save_model" /\ error = "none")
        => LET data == disk[target_name(args.filename)].data
               L == layer_sizes
               n == Len(L)
               wcount(k) == SumTo([m \in 1 .. k |-> L[m] * L[m + 1]], k)
               bcount(k) == SumTo([m \in 1 .. k |-> L[m + 1]], k)
           IN  /\ Len(data) = 2 + 1 + n + wcount(n - 1) + bcount(n - 1)
               /\ data[1] = CharC
               /\ data[2] = CharS
               /\ data[3] = n
               /\ \A k \in 1 .. n : data[3 + k] = L[k]
               /\ \A k \in 1 .. (n - 1) : \A i \in 1 .. L[k] : \A j \in 1 .. L[k + 1] :
                     data[3 + n + wcount(k - 1) + (i - 1) * L[k + 1] + j]
                         = weights[k][i][j]
               /\ \A k \in 1 .. (n - 1) : \A j \in 1 .. L[k + 1] :
                     data[3 + n + wcount(n - 1) + bcount(k - 1) + j] = biases[k][j]

\* a network of three layers was saved
C7_Witness ==
    /\ op = "save_model"
    /\ error = "none"
    /\ layer_sizes = <<1, 2, 2>>
    /\ disk[target_name(args.filename)].exists

\* the network after one training step on the sample (x, t)
sample_step(net, x, t, learning_rate) ==
    LET outs == train_forward(net, 1, <<x>>)
        grads == train_gradients(net, outs, t)
    IN  [net EXCEPT !.weights = updated_weights(net, outs, grads, learning_rate),
                    !.biases = updated_biases(net, grads, learning_rate)]

RECURSIVE replay(_, _, _, _, _)
\* the network after the first k training steps of a call, the samples taken
\* in the caller's order, epoch after epoch
replay(net, inputs, targets, learning_rate, k) ==
    IF k = 0 THEN net
    ELSE sample_step(replay(net, inputs, targets, learning_rate, k - 1),
                     inputs[((k - 1) % Len(inputs)) + 1],
                     targets[((k - 1) % Len(inputs)) + 1],
                     learning_rate)

\* C8: train applies its updates epoch after epoch in ascending order and,
\* inside an epoch, sample after sample in the caller's order; every forward
\* pass reads the parameters the previous sample's update left, and a call
\* that returns has applied exactly epochs * |inputs| updates
C8_TrainOrder ==
    op = "train"
        => LET S == Len(args.inputs)
               well == ~ill_shaped(args.inputs, args.targets)
           IN  /\ \A k \in 1 .. Len(updates) :
                     updates[k] = <<(k - 1) \div S, (k - 1) % S>>
               /\ pc \in {"forward", "backward", "update"}
                     => Len(updates) = epoch * S + sample
               /\ pc = "idle" => Len(updates) = args.epochs * S
               /\ well => this = replay(pre, args.inputs, args.targets,
                                        args.learning_rate, Len(updates))
               /\ (well /\ pc \in {"backward", "update"})
                     => layer_outputs =
                           train_forward(this, 1, <<args.inputs[sample + 1]>>)

\* a call of two epochs over two different samples returned, having changed
\* the parameters
C8_Witness ==
    /\ op = "train"
    /\ pc = "idle"
    /\ ~ill_shaped(args.inputs, args.targets)
    /\ Len(updates) = 4
    /\ args.inputs[1] # args.inputs[2]
    /\ this # pre

\* the operations that are not train
NonTrainOps ==
    { "predict", "compute_accuracy", "is_correct_prediction",
      "compute_mse_loss", "compute_output_gradient", "save_model" }

\* C9: only the update of a training step changes layer_sizes, a weight or a
\* bias; predict, compute_accuracy, is_correct_prediction, compute_mse_loss,
\* compute_output_gradient and save_model leave them as they are
C9_OnlyTrainMutates ==
    [][ /\ (layer_sizes' # layer_sizes \/ weights' # weights \/ biases' # biases)
            => (op = "train" /\ pc = "update")
        /\ (calls' = calls + 1 /\ op' \in NonTrainOps)
            => (layer_sizes' = layer_sizes /\ weights' = weights /\ biases' = biases)
      ]_vars

\* an operation that is not train ran after a train call that applied updates
C9_Witness ==
    /\ op \in NonTrainOps
    /\ pc = "idle"
    /\ Len(updates) > 0
    /\ calls = 2

\* C10: compute_accuracy returns the number of matching samples divided by
\* the sample count, a value in [0, 1], for every dataset, the empty dataset
\* included, and 1 when every sample matches
C10_AccuracyRange ==
    (op = "compute_accuracy" /\ pc = "idle")
        => /\ result.den > 0
           /\ 0 <= result.num
           /\ result.num <= result.den
           /\ result.den = Len(args.inputs)
           /\ (/\ ~ill_shaped(args.inputs, args.targets)
               /\ \A s \in 1 .. Len(args.inputs) :
                     is_correct_prediction(predict(this, args.inputs[s]),
                                           args.targets[s]))
                 => result.num = result.den

\* the lowest index, counted from 0, that holds the maximum of a non-empty v
lowest_argmax(v) ==
    (CHOOSE i \in 1 .. Len(v) :
        /\ \A k \in 1 .. Len(v) : v[k] <= v[i]
        /\ \A k \in 1 .. (i - 1) : v[k] < v[i]) - 1

\* C11: for non-empty p and t, is_correct_prediction(p, t) is true exactly
\* when the lowest index holding the maximum of p is the lowest index holding
\* the maximum of t; for vectors of length 1 it is always true
C11_ArgmaxTies ==
    (op = "is_correct_prediction"
        /\ Len(args.prediction) > 0 /\ Len(args.target) > 0)
        => /\ result = (lowest_argmax(args.prediction) = lowest_argmax(args.target))
           /\ (Len(args.prediction) = 1 /\ Len(args.target) = 1) => result = TRUE

\* a prediction whose maximum is held twice matched a target by its lowest
\* index
C11_Witness ==
    /\ op = "is_correct_prediction"
    /\ args.prediction = <<One, One>>
    /\ args.target = <<One, 0>>
    /\ result = TRUE

\* C12: predict called with an input of another length than the first layer,
\* and compute_accuracy called with a sample of which the input or the target
\* has another length than the first or the last layer, end in an
\* input-shape error, with no value returned and no read outside a vector
C12_EntryShapeError ==
    (\/ op = "predict" /\ Len(args.input) # input_size(this)
     \/ op = "compute_accuracy" /\ ill_shaped(args.inputs, args.targets))
        => error = "input-shape" /\ pc = "idle"

C14_ConcurrentPredict ==
    [][ /\ \A t \in Threads :
              threads'[t].pc = "done"
                 => threads'[t].result = predict(this, threads'[t].input)
        /\ \E t \in Threads : \A u \in Threads \ {t} : threads'[u] = threads[u]
        /\ UNCHANGED <<network_vars, disk>>
      ]_vars

\* two calls with different inputs ran at the same time and both returned
C14_Witness ==
    /\ threads[1].pc = "done"
    /\ threads[2].pc = "done"
    /\ threads[1].input # threads[2].input
    /\ threads[1].result # threads[2].result

\* C15: dot_product_fma(a, b, N) on two arrays of exactly N elements returns
\* the sum over i < N of a[i] * b[i] and loads no element at an index >= N,
\* for every N >= 0, on the wide path and on the portable path
C15_DotProduct ==
    op = "dot_product_fma"
        => /\ pc = "idle"
           /\ result.reads \subseteq 0 .. (args.size - 1)
           /\ result.value =
                 SumTo([i \in 1 .. args.size |-> FMul(args.a[i], args.b[i])],
                       args.size)

\* the 32-bit number a file holds at offset pos, highest byte first
be_value(file, pos) ==
    file[pos + 1] * 16777216 + file[pos + 2] * 65536
    + file[pos + 3] * 256 + file[pos + 4]

\* the number of samples an images file with a whole header declares, capped
declared_samples(images) ==
    IF be_value(images, 4) < SampleCap THEN be_value(images, 4) ELSE SampleCap

\* the images file has its magic, its header and every pixel it declares
images_whole(images) ==
    /\ Len(images) >= 16
    /\ be_value(images, 0) = MagicImages
    /\ Len(images) >= 16 + be_value(images, 4) * be_value(images, 8)
                                               * be_value(images, 12)

\* the labels file has its magic, its header and a label for each of n samples
labels_whole(labels, n) ==
    /\ Len(labels) >= 8
    /\ be_value(labels, 0) = MagicLabels
    /\ Len(labels) >= 8 + n

\* C16: from an images file and a labels file with valid magics the adapter
\* builds exactly min(num_images, 5000) pairs; input i holds, in file order,
\* the rows * cols pixels of image i divided by 255, each in [0, 1]; target i
\* has length 10 and holds 1.0 at the index of label byte i and 0.0
\* elsewhere, and nothing is written outside it, whatever the label byte
C16_DatasetPairs ==
    (/\ op = "fromMNIST"
     /\ args.opens
     /\ images_whole(args.images)
     /\ labels_whole(args.labels, declared_samples(args.images)))
        => LET size == be_value(args.images, 8) * be_value(args.images, 12)
               count == declared_samples(args.images)
           IN  /\ pc = "idle"
               /\ error = "none"
               /\ result.outside = {}
               /\ Len(result.inputs) = count
               /\ Len(result.targets) = count
               /\ \A i \in 1 .. count :
                     /\ Len(result.inputs[i]) = size
                     /\ \A j \in 1 .. size :
                           /\ result.inputs[i][j] =
                                 [num |-> args.images[16 + (i - 1) * size + j],
                                  den |-> PixelMax]
                           /\ result.inputs[i][j].num <= result.inputs[i][j].den
                     /\ Len(result.targets[i]) = OutputSize
                     /\ \A k \in 1 .. OutputSize :
                           result.targets[i][k] =
                              IF k = args.labels[8 + i] + 1 THEN One ELSE 0

\* C17: when the images magic or the labels magic is wrong, or when either
\* file is cut short (in its header, in its pixels, or in the labels of the
\* samples read), the adapter ends in the dataset-format error, builds no
\* sample and trains no network
C17_DatasetFormatError ==
    (/\ op = "fromMNIST"
     /\ args.opens
     /\ ~(/\ images_whole(args.images)
          /\ labels_whole(args.labels, declared_samples(args.images))))
        => /\ error = ErrIdxFormat
           /\ result.inputs = <<>>
           /\ ~result.trained

\* the mean of the squared differences, in exact arithmetic
mean_squared_error(prediction, target) ==
    DoubleDiv(SumOver([i \in 1 .. Len(prediction) |->
                          (prediction[i] - target[i]) * (prediction[i] - target[i])],
                      1 .. Len(prediction)),
              Len(prediction))

\* the MSE between predict((0,0,0)) of net and the target (0,0,0)
zero_sample_mse(net) ==
    mean_squared_error(predict(net, Zeros(input_size(net))), Zeros(output_size(net)))

\* C18 as stated (scenario (b)): for the identity network of shape {3,3}
\* as constructed, the MSE between predict((0,0,0)) and the target (0,0,0)
\* is 0 before training and 0 after every epoch of training on that sample.
C18_ZeroMseAlways ==
    pc \in {"idle", "forward"} => zero_sample_mse(this).num = 0

\* C18 amended: predict((0,0,0)) is the bias vector, so the MSE is the mean
\* of the squared biases and is 0 only when every bias is 0; training on the
\* sample changes no weight; and a train call that starts with MSE 0 has
\* MSE 0 after every step.
C18_ZeroSample ==
    /\ predict(this, Zeros(input_size(this))) = biases[1]
    /\ zero_sample_mse(this).num = 0 <=> biases[1] = Zeros(output_size(this))
    /\ op = "train" => weights = pre.weights
    /\ op = "train" /\ zero_sample_mse(pre).num = 0 => zero_sample_mse(this).num = 0

C18_Witness ==
    /\ op = "train"
    /\ pc = "idle"
    /\ Len(updates) >= 1
    /\ zero_sample_mse(pre).num = 0
    /\ biases[1] = Zeros(output_size(this))

\* the sample the current step works on is well-shaped
well_shaped_sample ==
    /\ Len(args.inputs[sample + 1]) = input_size(this)
    /\ Len(args.targets[sample + 1]) = output_size(this)

RECURSIVE forward_output(_, _, _)
\* A_k: the output of layer k (from 0) for the input x under net
forward_output(net, x, k) ==
    IF k = 0 THEN x
    ELSE LET below == forward_output(net, x, k - 1)
         IN  [j \in 1 .. net.layer_sizes[k + 1] |->
                 activation_of(net.activation,
                     net.biases[k][j]
                     + SumOver([i \in 1 .. net.layer_sizes[k] |->
                                   FMul(below[i], net.weights[k][i][j])],
                               1 .. net.layer_sizes[k]))]

RECURSIVE error_signal(_, _, _, _)
\* delta_k (k from 0) for the sample (x, t) under net
error_signal(net, x, t, k) ==
    LET n == Len(net.layer_sizes)
        A == forward_output(net, x, k + 1)
    IN  IF k = n - 2
        THEN [j \in 1 .. net.layer_sizes[n] |->
                 FMul(A[j] - t[j], activation_derivative_of(net.activation, A[j]))]
        ELSE LET above == error_signal(net, x, t, k + 1)
             IN  [j \in 1 .. net.layer_sizes[k + 2] |->
                     FMul(activation_derivative_of(net.activation, A[j]),
                          SumOver([m \in 1 .. net.layer_sizes[k + 3] |->
                                      FMul(above[m], net.weights[k + 2][j][m])],
                                  1 .. net.layer_sizes[k + 3]))]

\* C19: one training step on a well-shaped sample (x, t) leaves, with A the
\* forward outputs and delta the error signals of the reference under the
\* parameters before the step, every W_k[i][j] lower by eta*delta_k[j]*A_k[i]
\* and every B_k[j] lower by eta*delta_k[j]; the forward and backward parts
\* of the step change no weight and no bias.
C19_ReferenceStep ==
    [][ /\ pc \in {"forward", "backward"} =>
              weights' = weights /\ biases' = biases
        /\ pc = "update" /\ well_shaped_sample =>
              LET x == args.inputs[sample + 1]
                  t == args.targets[sample + 1]
                  eta == args.learning_rate
              IN  \A k \in 0 .. Len(layer_sizes) - 2 :
                      LET A == forward_output(this, x, k)
                          delta == error_signal(this, x, t, k)
                      IN  /\ layer_outputs[k + 1] = A
                          /\ gradients[k + 1] = delta
                          /\ \A i \in 1 .. layer_sizes[k + 1], j \in 1 .. layer_sizes[k + 2] :
                                 weights'[k + 1][i][j] =
                                     weights[k + 1][i][j] - FMul(FMul(eta, delta[j]), A[i])
                          /\ \A j \in 1 .. layer_sizes[k + 2] :
                                 biases'[k + 1][j] = biases[k + 1][j] - FMul(eta, delta[j]) ]_vars

C19_Witness ==
    /\ op = "train"
    /\ pc = "update"
    /\ well_shaped_sample
    /\ Len(updates) >= 1
    /\ Len(weights) = 2
    /\ \E j \in 1 .. layer_sizes[2] : gradients[1][j] # 0
    /\ \E i \in 1 .. layer_sizes[1] : layer_outputs[1][i] # 0

\* net holds n-1 weight matrices and n-1 bias vectors of the sizes its
\* layer_sizes give
shape_holds(net) ==
    LET n == Len(net.layer_sizes)
    IN  /\ Len(net.weights) = n - 1
        /\ Len(net.biases) = n - 1
        /\ \A k \in 1 .. n - 1 :
              /\ Len(net.weights[k]) = net.layer_sizes[k]
              /\ \A i \in 1 .. Len(net.weights[k]) :
                    Len(net.weights[k][i]) = net.layer_sizes[k + 1]
              /\ Len(net.biases[k]) = net.layer_sizes[k + 1]

RECURSIVE current_input_at(_, _, _)
\* predict's current_input when 'layer' iterations of its loop are done
current_input_at(net, input, layer) ==
    IF layer = 0 THEN input
    ELSE next_layer_output(net, layer, current_input_at(net, input, layer - 1))

\* C20: a network from the constructor or from loadFromModel, after any
\* train, predict, compute_accuracy and save_model calls, holds n-1 weight
\* matrices and n-1 bias vectors with rows(W_k) = l_k, cols(W_k) = l_{k+1},
\* |B_k| = l_{k+1}; for a well-shaped sample or input every layer output A_k
\* of train and of predict has length l_k, and predict returns l_{n-1} values.
C20_ShapeInvariant ==
    pc # "crashed" =>
      /\ shape_holds(this)
      /\ op = "train" /\ pc \in {"backward", "update"} /\ well_shaped_sample =>
            /\ Len(layer_outputs) = Len(layer_sizes)
            /\ \A k \in 1 .. Len(layer_sizes) :
                  Len(layer_outputs[k]) = layer_sizes[k]
      /\ op = "predict" /\ Len(args.input) = input_size(this) =>
            /\ \A k \in 1 .. Len(layer_sizes) :
                  Len(current_input_at(this, args.input, k - 1)) = layer_sizes[k]
            /\ result = current_input_at(this, args.input, Len(layer_sizes) - 1)
            /\ Len(result) = output_size(this)

C20_Witness ==
    /\ disk[LoadedName].exists
    /\ Len(disk[LoadedName].data) + 1 = Len(save_model(this))
    /\ Len(layer_sizes) = 3
    /\ Len(updates) >= 1
    /\ op = "predict"
    /\ pc = "idle"
    /\ Len(args.input) = input_size(this)

\* C21: the loops under omp parallel for give, in every interleaving of
\* their iterations over two or more threads, the value of the sequential
\* execution: predict its layer outputs, compute_mse_loss and the portable
\* dot product their sums, with no addition into total_loss / sum lost
C21_ParallelLoops ==
    pc = "idle" =>
      /\ op = "compute_mse_loss" =>
            result = compute_mse_loss(args.prediction, args.target,
                                      1 .. Len(args.prediction))
      /\ op = "dot_product_fma" =>
            result.value = dot_product_scalar(args.a, args.b, args.size,
                                              1 .. args.size)
      /\ op = "predict" => result = predict(this, args.input)

\* net with its generator in state g
with_gen(net, g) == [net EXCEPT !.gen = g]

\* C22: two networks with the same shape, activation pair, weights and
\* biases, trained with the same inputs, targets, learning rate and epoch
\* count, end with the same weights and biases: train draws nothing from
\* the generator, and each of its steps has one outcome, whatever the
\* state of the generator
C22_TrainDeterministic ==
    op = "train" =>
      /\ gen = pre.gen
      /\ pc = "forward" =>
            \A g1 \in Seeds, g2 \in Seeds :
               \A p1 \in Pads(args.inputs[sample + 1], input_size(this)),
                  p2 \in Pads(args.inputs[sample + 1], input_size(this)) :
                  train_forward(with_gen(this, g1), 1,
                      << PadTo(args.inputs[sample + 1], input_size(this), p1) >>)
                  = train_forward(with_gen(this, g2), 1,
                      << PadTo(args.inputs[sample + 1], input_size(this), p2) >>)
      /\ pc = "backward" =>
            \A g1 \in Seeds, g2 \in Seeds :
               \A p1 \in Pads(args.targets[sample + 1], output_size(this)),
                  p2 \in Pads(args.targets[sample + 1], output_size(this)) :
                  train_gradients(with_gen(this, g1), layer_outputs,
                      PadTo(args.targets[sample + 1], output_size(this), p1))
                  = train_gradients(with_gen(this, g2), layer_outputs,
                      PadTo(args.targets[sample + 1], output_size(this), p2))
      /\ pc = "update" =>
            \A g1 \in Seeds, g2 \in Seeds :
               /\ updated_weights(with_gen(this, g1), layer_outputs, gradients,
                                  args.learning_rate)
                  = updated_weights(with_gen(this, g2), layer_outputs, gradients,
                                    args.learning_rate)
               /\ updated_biases(with_gen(this, g1), gradients, args.learning_rate)
                  = updated_biases(with_gen(this, g2), gradients, args.learning_rate)

====
